---- MODULE Spec2Model ----
(***************************************************************************)
(* The de-duplicating, cancelable request client of React18-Admin:         *)
(* AxiosRequest (packages/request/src/request.ts) wired by creteRequest    *)
(* (packages/request/src/index.ts).                                        *)
(*                                                                         *)
(* Strings that are concatenated or compared by the code (method, url,     *)
(* params, registry keys) are sequences of one-character strings, so that  *)
(* the registry key is computed exactly as the template literals compute   *)
(* it.  Opaque texts (token, notifier messages) are TLA+ strings.          *)
(*                                                                         *)
(* Every request is a promise chain.  axios runs request interceptors in   *)
(* the reverse of their registration order and response interceptors in    *)
(* registration order, one microtask per stage:                            *)
(*   requestInterceptors -> built-in request stage -> dispatch -> network  *)
(*   -> responseInterceptors / responseInterceptorsCatch -> built-in       *)
(*   response stage.                                                       *)
(* `queue` is the microtask queue (FIFO); network events are macrotasks    *)
(* and need an empty microtask queue; calls made by application code       *)
(* (get/post/put/delete, cancelRequest, cancelAllRequest) may happen at    *)
(* any point.                                                              *)
(***************************************************************************)
EXTENDS Integers, Sequences, FiniteSets, TLC

VARIABLES
    n,                  \* number of get/post/put/delete calls made so far
    pc,                 \* pc[i]: next stage of the promise chain of call i
    call,               \* call[i]: the request config of call i
    authorization,      \* authorization[i]: res.headers.Authorization ("" = not set)
    aborted,            \* aborted[i]: controller.signal.aborted of call i's AbortController
    st,                 \* st[i]: "ok" / "err", whether the chain is fulfilled or rejected
    val,                \* val[i]: the value the chain currently carries
    outcome,            \* outcome[i]: state of the promise returned to the caller
    result,             \* result[i]: the value that promise settled with
    notified,           \* notified[i]: contents passed to message.error while handling call i
    redirected,         \* redirected[i]: handling call i triggered the jump to /login
    abortControllerMap, \* this.abortControllerMap, entries in insertion order
    queue,              \* microtask queue: calls whose next stage is ready to run
    token,              \* local storage value under tokenKey ("" = absent)
    lang,               \* localStorage.getItem("lang")
    location,           \* window.location
    timers,             \* pending setTimeout(() => location.href = "/login", 1000)
    received,           \* received[i]: the response the transport delivered for call i
    issuedWith,         \* issuedWith[i]: the token in the store when call i was made
    tabs,               \* tabs store: the open tabs, each with its key and closable flag
    activeKey,          \* tabs store: key of the active tab
    isCloseTabsLock,    \* tabs store: the close lock
    dropped,            \* keys dropScope was called with by the last tabs-store operation
    versionLocal,       \* localStorage.getItem(VERSION) ("" = absent)
    served,             \* the version in the version.json the server serves
    mode,               \* import.meta.env.MODE
    runs,               \* runs[r]: a versionCheck run: where it is, what it read
    infos,              \* infos[v]: messageApi.info calls made for fetched version v
    filterArg,          \* the object filterEmptyValue is called with
    filterRes           \* whether filterEmptyValue has returned, and the object it returned

clientVars == <<n, pc, call, authorization, aborted, st, val, outcome, result, notified,
                redirected, abortControllerMap, queue, token, lang, location, timers,
                received, issuedWith>>

tabsVars == <<tabs, activeKey, isCloseTabsLock, dropped>>

versionVars == <<versionLocal, served, mode, runs, infos>>

filterVars == <<filterArg, filterRes>>

appVars == <<tabsVars, versionVars, filterVars>>

vars == <<clientVars, appVars>>

(***************************************************************************)
(* Bounds                                                                  *)
(***************************************************************************)
\* calls made in a behaviour of Spec (the registry under all three kinds of call)
MaxReq == 3

\* calls made in a behaviour of SpecAuth (every kind of response, token changes)
MaxAuthReq == 2

\* calls made in a behaviour of SpecTypes, SpecBody and SpecFingerprint
MaxKeyReq == 2

\* tabs that can be open in a behaviour of SpecTabs
MaxTabs == 3

\* versionCheck runs in a behaviour of SpecVersion
MaxRuns == 2

\* releases the server goes through in a behaviour of SpecVersion
MaxRelease == 2

\* properties of the object filterEmptyValue is called with in SpecFilter
MaxProps == 2

MaxOf(S) == CHOOSE x \in S : \A y \in S : y <= x

Ids == 1..MaxOf({MaxReq, MaxAuthReq, MaxKeyReq})

Runs == 1..MaxRuns

\* release 0 is a version.json without a version
Releases == 0..MaxRelease

(***************************************************************************)
(* Values                                                                  *)
(***************************************************************************)
Undefined == [t |-> "undefined"]

EmptyObject == [t |-> "object"]

Num(s) == [t |-> "number", s |-> s]

\* a coercion that keeps the quotes of a string value, as JSON.stringify does
Coerce_Quoted(v) == IF v.t = "string" THEN <<"\"">> \o v.s \o <<"\"">> ELSE v.s

\* `${v}`: string coercion of a param or body value
Coerce(v) == v.s

NoData == [kind |-> "none"]

\* a body passed as an object, as the API wrappers pass it: request.post(url, data)
ObjectData(fields) == [kind |-> "object", fields |-> fields]

\* a body passed as a string
StringData(text) == [kind |-> "string", text |-> text]

\* request.get(`/a`), request.get(`/a`, {params: {p: 1}}), request.post(`/a`, {n: 1})
Calls ==
    { [method |-> <<"g", "e", "t">>, url |-> <<"/", "a">>, params |-> <<>>, data |-> NoData],
      [method |-> <<"g", "e", "t">>, url |-> <<"/", "a">>,
       params |-> << <<<<"p">>, Num(<<"1">>)>> >>, data |-> NoData],
      [method |-> <<"p", "o", "s", "t">>, url |-> <<"/", "a">>, params |-> <<>>,
       data |-> ObjectData(<< <<<<"n">>, Num(<<"1">>)>> >>)] }

Str(s) == [t |-> "string", s |-> s]

\* request.get(`/a`, {params})
GetA(params) ==
    [method |-> <<"g", "e", "t">>, url |-> <<"/", "a">>, params |-> params, data |-> NoData]

\* request.post(`/a`, data)
PostA(data) ==
    [method |-> <<"p", "o", "s", "t">>, url |-> <<"/", "a">>, params |-> <<>>, data |-> data]

\* the text {"n":value}
JsonText(value) == <<"{", "\"", "n", "\"", ":">> \o value \o <<"}">>

\* calls that differ in the type of one value only: a param p that is 1 or "1", a
\* JSON string body whose member n is 1 or "1"
TypeCalls ==
    { GetA(<< <<<<"p">>, Num(<<"1">>)>> >>),
      GetA(<< <<<<"p">>, Str(<<"1">>)>> >>),
      PostA(StringData(JsonText(<<"1">>))),
      PostA(StringData(JsonText(<<"\"", "1", "\"">>))) }

\* posts with a body: {n: 1} and {n: 2} passed as objects, and the string "{n}"
BodyCalls ==
    { PostA(ObjectData(<< <<<<"n">>, Num(<<"1">>)>> >>)),
      PostA(ObjectData(<< <<<<"n">>, Num(<<"2">>)>> >>)),
      PostA(StringData(<<"{", "n", "}">>)) }

\* calls of every method: with two params, with a JSON string body of two members,
\* with params and a body, without url
FingerprintCalls ==
    { GetA(<< <<<<"p">>, Num(<<"1">>)>>, <<<<"q">>, Str(<<"x">>)>> >>),
      PostA(StringData(<<"{", "\"", "n", "\"", ":", "1", ",",
                         "\"", "m", "\"", ":", "\"", "x", "\"", "}">>)),
      [method |-> <<"p", "u", "t">>, url |-> <<"/", "a">>,
       params |-> << <<<<"p">>, Num(<<"1">>)>> >>, data |-> StringData(JsonText(<<"2">>))],
      [method |-> <<"d", "e", "l", "e", "t", "e">>, url |-> <<>>, params |-> <<>>,
       data |-> NoData] }

NoCall == [method |-> <<>>, url |-> <<>>, params |-> <<>>, data |-> NoData]

\* response bodies { code, message? } the backend may send
Bodies ==
    { [t |-> "body", code |-> 200, message |-> Undefined],
      [t |-> "body", code |-> 401, message |-> Undefined],
      [t |-> "body", code |-> 404, message |-> [t |-> "string", s |-> "not found"]],
      [t |-> "body", code |-> 404, message |-> [t |-> "string", s |-> ""]],
      [t |-> "body", code |-> 404, message |-> Undefined] }

Tokens == {"tok-123"}

Nothing == [t |-> "nothing"]

(***************************************************************************)
(* Registry key                                                            *)
(***************************************************************************)
RECURSIVE ParamsKey(_)
ParamsKey(params) ==
    IF params = <<>> THEN <<>>
    ELSE <<"&">> \o Head(params)[1] \o <<"=">> \o Coerce(Head(params)[2])
         \o ParamsKey(Tail(params))

Digits == {"0", "1", "2", "3", "4", "5", "6", "7", "8", "9"}

Quote == "\""

Slice(s, a, b) == [k \in 1..(b - a + 1) |-> s[a + k - 1]]

\* index of the quote closing the string literal whose content starts at p, 0 if none
RECURSIVE StringEnd(_, _)
StringEnd(s, p) ==
    IF p > Len(s) THEN 0
    ELSE IF s[p] = Quote THEN p
    ELSE StringEnd(s, p + 1)

\* index of the last digit of the run of digits starting at p, p - 1 if there is none
RECURSIVE NumberEnd(_, _)
NumberEnd(s, p) ==
    IF p > Len(s) \/ s[p] \notin Digits THEN p - 1
    ELSE NumberEnd(s, p + 1)

ParseFailure == [ok |-> FALSE, fields |-> <<>>]

\* the members `"key":value` of a JSON object from position p up to the closing brace
RECURSIVE ParseMembers(_, _, _)
ParseMembers(s, p, acc) ==
    IF p > Len(s) \/ s[p] # Quote THEN ParseFailure
    ELSE LET ke == StringEnd(s, p + 1) IN
         IF ke = 0 \/ ke + 2 > Len(s) \/ s[ke + 1] # ":" THEN ParseFailure
         ELSE LET vs == ke + 2
                  isStr == s[vs] = Quote
                  ve == IF isStr THEN StringEnd(s, vs + 1) ELSE NumberEnd(s, vs)
                  value == IF isStr THEN [t |-> "string", s |-> Slice(s, vs + 1, ve - 1)]
                           ELSE Num(Slice(s, vs, ve))
                  next == acc \o << <<Slice(s, p + 1, ke - 1), value>> >>
              IN IF ve = 0 \/ ve < vs \/ ve + 1 > Len(s) THEN ParseFailure
                 ELSE IF s[ve + 1] = "}" THEN
                          IF ve + 1 = Len(s) THEN [ok |-> TRUE, fields |-> next]
                          ELSE ParseFailure
                 ELSE IF s[ve + 1] = "," THEN ParseMembers(s, ve + 2, next)
                 ELSE ParseFailure

\* JSON.parse on a text that starts with "{": objects of string and number
\* members, written without white space
JsonParse(s) ==
    IF Len(s) < 2 \/ s[1] # "{" THEN ParseFailure
    ELSE IF Len(s) = 2 THEN [ok |-> s[2] = "}", fields |-> <<>>]
    ELSE ParseMembers(s, 2, <<>>)

\* a body part of the key written with the mark of the params
BodyKey_Ampersand(fields) == ParamsKey(fields)

RECURSIVE BodyKey(_)
BodyKey(fields) ==
    IF fields = <<>> THEN <<>>
    ELSE <<"#">> \o Head(fields)[1] \o <<"=">> \o Coerce(Head(fields)[2])
         \o BodyKey(Tail(fields))

\* res.data && res.data?.[0] === "{" && res.data?.[res.data?.length - 1] === "}":
\* an object body has no property 0, so only a string body passes the test
LooksLikeJson(data) ==
    /\ data.kind = "string"
    /\ Len(data.text) > 0
    /\ data.text[1] = "{"
    /\ data.text[Len(data.text)] = "}"

\* the key of the request before the body is looked at
UrlKey(c) ==
    c.method
    \o (IF c.url # <<>> THEN <<"^">> \o c.url ELSE <<>>)
    \o ParamsKey(c.params)

\* JSON.parse(res.data) throws
ParseThrows(c) == LooksLikeJson(c.data) /\ ~JsonParse(c.data.text).ok

\* the registry key the built-in request interceptor computes
Fingerprint(c) ==
    UrlKey(c)
    \o (IF LooksLikeJson(c.data) THEN BodyKey(JsonParse(c.data.text).fields) ELSE <<>>)

(***************************************************************************)
(* this.abortControllerMap: a Map<string, AbortController>.  The           *)
(* controller created for call i is identified by i.                       *)
(***************************************************************************)
MapHas(m, k) == \E e \in 1..Len(m) : m[e].key = k

\* Map.get: the controller stored under k, 0 for undefined
MapGet(m, k) ==
    IF MapHas(m, k) THEN m[CHOOSE e \in 1..Len(m) : m[e].key = k].ctl ELSE 0

MapSet(m, k, c) ==
    IF MapHas(m, k)
    THEN [e \in 1..Len(m) |-> IF m[e].key = k THEN [key |-> k, ctl |-> c] ELSE m[e]]
    ELSE Append(m, [key |-> k, ctl |-> c])

MapDelete(m, k) == SelectSeq(m, LAMBDA e : e.key # k)

\* values() that misses the entry added last
MapValues_SkipsLast(m) == [e \in 1..(Len(m) - 1) |-> m[e].ctl]

MapValues(m) == [e \in 1..Len(m) |-> m[e].ctl]

Range(s) == {s[k] : k \in 1..Len(s)}

(***************************************************************************)
(* controller.abort()                                                      *)
(***************************************************************************)
\* Of the controllers in `hit`, in order, those whose request is at the transport:
\* the adapter rejects them with a CanceledError at once.
Woken(hit) == SelectSeq(hit, LAMBDA j : pc[j] = "sent" /\ ~aborted[j])

CanceledError == [t |-> "error", kind |-> "cancel", config |-> TRUE, data |-> Undefined]

NetworkError == [t |-> "error", kind |-> "network", config |-> TRUE, data |-> Undefined]

SyntaxError == [t |-> "error", kind |-> "syntax", config |-> FALSE, data |-> Undefined]

TypeError == [t |-> "error", kind |-> "type", config |-> FALSE, data |-> Undefined]

\* the requests after the controllers in `hit` have been aborted
AbortedAfter(hit) == [j \in Ids |-> aborted[j] \/ j \in Range(hit)]

PcAfter(hit) == [j \in Ids |-> IF j \in Range(Woken(hit)) THEN "response" ELSE pc[j]]

StAfter(hit) == [j \in Ids |-> IF j \in Range(Woken(hit)) THEN "err" ELSE st[j]]

ValAfter(hit) == [j \in Ids |-> IF j \in Range(Woken(hit)) THEN CanceledError ELSE val[j]]

\* cancelRequest's loop over urlList: the registry afterwards and the controllers aborted
RECURSIVE CancelLoop(_, _, _)
CancelLoop(m, urlList, hit) ==
    IF urlList = <<>> THEN [map |-> m, hit |-> hit]
    ELSE LET _url == Head(urlList)
             c == MapGet(m, _url)
         IN CancelLoop(MapDelete(m, _url), Tail(urlList),
                       IF c # 0 THEN Append(hit, c) ELSE hit)

(***************************************************************************)
(* Caller-supplied interceptors (creteRequest)                             *)
(***************************************************************************)
Truthy(v) == v.t = "string" /\ v.s # ""

\* getLocalInfo(tokenKey) || ""
getLocalInfo == token

\* requestInterceptors that never writes the header
requestInterceptors_SkipsHeader(tokenLocal, header) == header

\* the Authorization header after requestInterceptors
requestInterceptors(tokenLocal, header) ==
    IF tokenLocal # "" THEN tokenLocal ELSE header

EnMsg == "Insufficient permissions, please log in again!"

ZhMsg == "quan xian bu zu, qing chong xin deng lu!"

ServerErrorMsg == "fu wu qi cuo wu!"

ServerErrorFallback == "fu wu qi cuo wu"

\* handleError showing the generic text whatever the error is
handleError_IgnoresError(error, content) ==
    IF Truthy(content) THEN content.s ELSE ServerErrorFallback

\* the content handleError passes to message.error: content || error || fallback
handleError(error, content) ==
    IF Truthy(content) THEN content.s
    ELSE IF Truthy(error) THEN error.s
    ELSE ServerErrorFallback

\* window.location after the 401 branch ran
LoginJump(loc) ==
    IF loc.hash THEN [loc EXCEPT !.route = "/login"] ELSE loc

\* responseInterceptors whose 401 branch leaves the token in the store
responseInterceptors_KeepsToken(data, tok, lng) ==
    IF data.code = 401
    THEN [token |-> tok, shown |-> <<IF lng = "en" THEN EnMsg ELSE ZhMsg>>, login |-> TRUE]
    ELSE IF data.code # 200
    THEN [token |-> tok, shown |-> <<handleError(data.message, Undefined)>>, login |-> FALSE]
    ELSE [token |-> tok, shown |-> <<>>, login |-> FALSE]

\* What responseInterceptors does with the body `data`: the token it leaves, the
\* contents it shows, whether it jumps to the login page.
responseInterceptors(data, tok, lng) ==
    IF data.code = 401
    THEN [token |-> "", shown |-> <<IF lng = "en" THEN EnMsg ELSE ZhMsg>>, login |-> TRUE]
    ELSE IF data.code # 200
    THEN [token |-> tok, shown |-> <<handleError(data.message, Undefined)>>, login |-> FALSE]
    ELSE [token |-> tok, shown |-> <<>>, login |-> FALSE]

\* responseInterceptorsCatch without the axios.isCancel branch
responseInterceptorsCatch_NotifiesCancel(err) ==
    [ret |-> err, shown |-> <<handleError([t |-> "string", s |-> ServerErrorMsg], Undefined)>>]

\* responseInterceptorsCatch without the handleError call
responseInterceptorsCatch_Silent(err) ==
    [ret |-> IF err.kind = "cancel" /\ err.data = Undefined
             THEN [err EXCEPT !.data = EmptyObject] ELSE err,
     shown |-> <<>>]

\* What responseInterceptorsCatch does with the error: the value it returns and the
\* contents it shows.
responseInterceptorsCatch(err) ==
    IF err.kind = "cancel"
    THEN [ret |-> [err EXCEPT !.data = IF err.data = Undefined THEN EmptyObject ELSE err.data],
          shown |-> <<>>]
    ELSE [ret |-> err, shown |-> <<handleError([t |-> "string", s |-> ServerErrorMsg], Undefined)>>]

(***************************************************************************)
(* Built-in response interceptor                                           *)
(***************************************************************************)
\* res.config.url || "" ; res.config is undefined for an error that carries no config
TerminalThrows(res) == ~res.config

\* a built-in response interceptor that rejects a business error
TerminalSettle_RejectsBusinessError(res) ==
    IF TerminalThrows(res) THEN [outcome |-> "rejected", result |-> TypeError]
    ELSE IF res.t = "response" /\ res.data.code # 200
    THEN [outcome |-> "rejected", result |-> res.data]
    ELSE [outcome |-> "fulfilled", result |-> res.data]

\* a built-in response interceptor that returns the response, not its data
TerminalSettle_ReturnsEnvelope(res) ==
    IF TerminalThrows(res) THEN [outcome |-> "rejected", result |-> TypeError]
    ELSE [outcome |-> "fulfilled", result |-> res]

\* the promise returned to the caller after the built-in response interceptor
TerminalSettle(res) ==
    IF TerminalThrows(res) THEN [outcome |-> "rejected", result |-> TypeError]
    ELSE [outcome |-> "fulfilled", result |-> res.data]

(***************************************************************************)
(* State machine                                                           *)
(***************************************************************************)
\* the arguments the application passes to cancelRequest: a url or a registry key,
\* or an array of them
CancelArgs ==
    {<<c.url>> : c \in Calls} \cup {<<Fingerprint(c)>> : c \in Calls}
    \cup {<<c.url, Fingerprint(c)>> : c \in Calls}

\* the tabs store as created: no tab, no active key, not locked
InitTabs ==
    /\ tabs = <<>>
    /\ activeKey = ""
    /\ isCloseTabsLock = FALSE
    /\ dropped = <<>>

\* no versionCheck run yet, in one of `modes`, with `stored` under VERSION in the
\* local storage and release `release` on the server
InitVersionOn(modes, stored, releases) ==
    /\ mode \in modes
    /\ versionLocal \in stored
    /\ served \in releases
    /\ runs = [r \in Runs |-> [at |-> "idle", versionLocal |-> <<>>]]
    /\ infos = [k \in Releases |-> 0]

\* filterEmptyValue about to be called with one of `objs`
InitFilterOn(objs) ==
    /\ filterArg \in objs
    /\ filterRes = [returned |-> FALSE, res |-> <<>>]

InitClient(tokens, langs, hashes) ==
    /\ n = 0
    /\ pc = [i \in Ids |-> "idle"]
    /\ call = [i \in Ids |-> NoCall]
    /\ authorization = [i \in Ids |-> ""]
    /\ aborted = [i \in Ids |-> FALSE]
    /\ st = [i \in Ids |-> "ok"]
    /\ val = [i \in Ids |-> Nothing]
    /\ outcome = [i \in Ids |-> "pending"]
    /\ result = [i \in Ids |-> Nothing]
    /\ notified = [i \in Ids |-> <<>>]
    /\ redirected = [i \in Ids |-> FALSE]
    /\ received = [i \in Ids |-> Nothing]
    /\ issuedWith = [i \in Ids |-> ""]
    /\ abortControllerMap = <<>>
    /\ queue = <<>>
    /\ token \in tokens
    /\ lang \in langs
    /\ location \in [hash : hashes, route : {"/"}]
    /\ timers = 0

InitOn(tokens, langs, hashes) ==
    /\ InitClient(tokens, langs, hashes)
    /\ InitTabs
    /\ InitVersionOn({"production"}, {<<>>}, {1})
    /\ InitFilterOn({<<>>})

Ready(i, stage) == queue # <<>> /\ Head(queue) = i /\ pc[i] = stage

\* the handlers in the order the constructor registers them with interceptors.use
RequestUse == <<"dedup", "requestInterceptors">>

ResponseUse == <<"response", "terminal">>

RECURSIVE Reverse(_)
Reverse(s) == IF s = <<>> THEN <<>> ELSE Append(Reverse(Tail(s)), Head(s))

\* the order request handlers registered in the order `use` are run in
RequestOrder_AsRegistered(use) == use

\* axios puts each request handler in front of the ones registered before it
RequestOrder(use) == Reverse(use)

\* the promise chain of one call
Chain == RequestOrder(RequestUse) \o <<"dispatch">> \o ResponseUse

\* the stage that follows `stage` in the chain of a call, "done" after the last
StageAfter(stage) ==
    LET k == CHOOSE j \in 1..Len(Chain) : Chain[j] = stage IN
    IF k = Len(Chain) THEN "done" ELSE Chain[k + 1]

\* get / post / put / delete: this.instance.get(url, options) starts the promise chain
Issue(c, max) ==
    /\ n < max
    /\ n' = n + 1
    /\ pc' = [pc EXCEPT ![n + 1] = Chain[1]]
    /\ call' = [call EXCEPT ![n + 1] = c]
    /\ queue' = Append(queue, n + 1)
    /\ issuedWith' = [issuedWith EXCEPT ![n + 1] = getLocalInfo]
    /\ UNCHANGED <<authorization, aborted, st, val, outcome, result, notified, redirected,
                   abortControllerMap, token, lang, location, timers, received, appVars>>

\* the caller's request interceptor: registered second, so axios runs it first
RequestInterceptors(i) ==
    /\ Ready(i, "requestInterceptors")
    /\ authorization' =
          [authorization EXCEPT ![i] = requestInterceptors(getLocalInfo, authorization[i])]
    /\ pc' = [pc EXCEPT ![i] = StageAfter("requestInterceptors")]
    /\ queue' = Append(Tail(queue), i)
    /\ UNCHANGED <<n, call, aborted, st, val, outcome, result, notified, redirected,
                   abortControllerMap, token, lang, location, timers, received,
                   issuedWith, appVars>>

\* the registry and the controllers aborted after the duplicate check for key `url`
\* made on behalf of controller `controller`
DuplicateCheck(m, url, controller) ==
    IF MapGet(m, url) # 0
    THEN CancelLoop(m, <<url>>, <<>>)
    ELSE [map |-> MapSet(m, url, controller), hit |-> <<>>]

\* the built-in request interceptor
BuiltinRequestInterceptor(i) ==
    /\ Ready(i, "dedup")
    /\ IF ParseThrows(call[i])
       THEN /\ pc' = [pc EXCEPT ![i] = StageAfter("dedup")]
            /\ st' = [st EXCEPT ![i] = "err"]
            /\ val' = [val EXCEPT ![i] = SyntaxError]
            /\ queue' = Append(Tail(queue), i)
            /\ UNCHANGED <<aborted, abortControllerMap>>
       ELSE LET r == DuplicateCheck(abortControllerMap, Fingerprint(call[i]), i) IN
            /\ abortControllerMap' = r.map
            /\ aborted' = AbortedAfter(r.hit)
            /\ pc' = [PcAfter(r.hit) EXCEPT ![i] = StageAfter("dedup")]
            /\ st' = StAfter(r.hit)
            /\ val' = ValAfter(r.hit)
            /\ queue' = Append(Tail(queue) \o Woken(r.hit), i)
    /\ UNCHANGED <<n, call, authorization, outcome, result, notified, redirected,
                   token, lang, location, timers, received, issuedWith, appVars>>

\* axios dispatchRequest: throwIfCancellationRequested, then the adapter sends
Dispatch(i) ==
    /\ Ready(i, "dispatch")
    /\ IF st[i] = "err"
       THEN /\ pc' = [pc EXCEPT ![i] = StageAfter("dispatch")]
            /\ queue' = Append(Tail(queue), i)
            /\ UNCHANGED <<st, val>>
       ELSE IF aborted[i]
       THEN /\ pc' = [pc EXCEPT ![i] = StageAfter("dispatch")]
            /\ st' = [st EXCEPT ![i] = "err"]
            /\ val' = [val EXCEPT ![i] = CanceledError]
            /\ queue' = Append(Tail(queue), i)
       ELSE /\ pc' = [pc EXCEPT ![i] = "sent"]
            /\ queue' = Tail(queue)
            /\ UNCHANGED <<st, val>>
    /\ UNCHANGED <<n, call, authorization, aborted, outcome, result, notified, redirected,
                   abortControllerMap, token, lang, location, timers, received,
                   issuedWith, appVars>>

\* the transport delivers a response with body `body` (a macrotask)
Respond(i, body) ==
    /\ queue = <<>>
    /\ pc[i] = "sent"
    /\ pc' = [pc EXCEPT ![i] = StageAfter("dispatch")]
    /\ val' = [val EXCEPT ![i] = [t |-> "response", config |-> TRUE, data |-> body]]
    /\ received' = [received EXCEPT ![i] = [t |-> "response", config |-> TRUE, data |-> body]]
    /\ queue' = <<i>>
    /\ UNCHANGED <<n, call, authorization, aborted, st, outcome, result, notified,
                   redirected, abortControllerMap, token, lang, location, timers,
                   issuedWith, appVars>>

\* the transport fails: network error, timeout (a macrotask)
TransportFailure(i) ==
    /\ queue = <<>>
    /\ pc[i] = "sent"
    /\ pc' = [pc EXCEPT ![i] = StageAfter("dispatch")]
    /\ st' = [st EXCEPT ![i] = "err"]
    /\ val' = [val EXCEPT ![i] = NetworkError]
    /\ queue' = <<i>>
    /\ UNCHANGED <<n, call, authorization, aborted, outcome, result, notified, redirected,
                   abortControllerMap, token, lang, location, timers, received,
                   issuedWith, appVars>>

\* the caller's response interceptor
ResponseInterceptors(i) ==
    /\ Ready(i, "response")
    /\ st[i] = "ok"
    /\ LET e == responseInterceptors(val[i].data, token, lang) IN
         /\ token' = e.token
         /\ notified' = [notified EXCEPT ![i] = notified[i] \o e.shown]
         /\ redirected' = [redirected EXCEPT ![i] = e.login]
         /\ location' = IF e.login THEN LoginJump(location) ELSE location
         /\ timers' = IF e.login /\ ~location.hash THEN timers + 1 ELSE timers
    /\ pc' = [pc EXCEPT ![i] = StageAfter("response")]
    /\ queue' = Append(Tail(queue), i)
    /\ UNCHANGED <<n, call, authorization, aborted, st, val, outcome, result,
                   abortControllerMap, lang, received, issuedWith, appVars>>

\* the caller's response error interceptor: it returns the error, so the chain goes on
\* fulfilled
ResponseInterceptorsCatch(i) ==
    /\ Ready(i, "response")
    /\ st[i] = "err"
    /\ LET e == responseInterceptorsCatch(val[i]) IN
         /\ val' = [val EXCEPT ![i] = e.ret]
         /\ notified' = [notified EXCEPT ![i] = notified[i] \o e.shown]
    /\ st' = [st EXCEPT ![i] = "ok"]
    /\ pc' = [pc EXCEPT ![i] = StageAfter("response")]
    /\ queue' = Append(Tail(queue), i)
    /\ UNCHANGED <<n, call, authorization, aborted, outcome, result, redirected,
                   abortControllerMap, token, lang, location, timers, received,
                   issuedWith, appVars>>

\* the key the built-in response interceptor deletes: res.config.url || ""
TerminalKey(c) == c.url

\* the built-in response interceptor
BuiltinResponseInterceptor(i) ==
    /\ Ready(i, "terminal")
    /\ abortControllerMap' =
          IF TerminalThrows(val[i]) THEN abortControllerMap
          ELSE MapDelete(abortControllerMap, TerminalKey(call[i]))
    /\ outcome' = [outcome EXCEPT ![i] = TerminalSettle(val[i]).outcome]
    /\ result' = [result EXCEPT ![i] = TerminalSettle(val[i]).result]
    /\ pc' = [pc EXCEPT ![i] = StageAfter("terminal")]
    /\ queue' = Tail(queue)
    /\ UNCHANGED <<n, call, authorization, aborted, st, val, notified, redirected,
                   token, lang, location, timers, received, issuedWith, appVars>>

cancelRequest(urlList) ==
    LET r == CancelLoop(abortControllerMap, urlList, <<>>) IN
    /\ abortControllerMap' = r.map
    /\ aborted' = AbortedAfter(r.hit)
    /\ pc' = PcAfter(r.hit)
    /\ st' = StAfter(r.hit)
    /\ val' = ValAfter(r.hit)
    /\ queue' = queue \o Woken(r.hit)
    /\ UNCHANGED <<n, call, authorization, outcome, result, notified, redirected,
                   token, lang, location, timers, received, issuedWith, appVars>>

cancelAllRequest ==
    LET hit == MapValues(abortControllerMap) IN
    /\ abortControllerMap' = <<>>
    /\ aborted' = AbortedAfter(hit)
    /\ pc' = PcAfter(hit)
    /\ st' = StAfter(hit)
    /\ val' = ValAfter(hit)
    /\ queue' = queue \o Woken(hit)
    /\ UNCHANGED <<n, call, authorization, outcome, result, notified, redirected,
                   token, lang, location, timers, received, issuedWith, appVars>>

\* the application stores a token (login)
StoreToken(t) ==
    /\ token # t
    /\ token' = t
    /\ UNCHANGED <<n, pc, call, authorization, aborted, st, val, outcome, result, notified,
                   redirected, abortControllerMap, queue, lang, location, timers, received,
                   issuedWith, appVars>>

\* setTimeout(() => { window.location.href = "/login" }, 1000) fires
LoginTimer ==
    /\ timers > 0
    /\ timers' = timers - 1
    /\ location' = [hash |-> FALSE, route |-> "/login"]
    /\ UNCHANGED <<n, pc, call, authorization, aborted, st, val, outcome, result, notified,
                   redirected, abortControllerMap, queue, token, lang, received,
                   issuedWith, appVars>>

\* the steps of the client for calls drawn from `calls`, at most `max` of them,
\* responses drawn from `bodies` and cancelRequest arguments drawn from `args`
ClientNext(calls, bodies, args, max) ==
    \/ \E c \in calls : Issue(c, max)
    \/ \E i \in Ids : RequestInterceptors(i)
    \/ \E i \in Ids : BuiltinRequestInterceptor(i)
    \/ \E i \in Ids : Dispatch(i)
    \/ \E i \in Ids, body \in bodies : Respond(i, body)
    \/ \E i \in Ids : TransportFailure(i)
    \/ \E i \in Ids : ResponseInterceptors(i)
    \/ \E i \in Ids : ResponseInterceptorsCatch(i)
    \/ \E i \in Ids : BuiltinResponseInterceptor(i)
    \/ cancelAllRequest
    \/ \E urlList \in args : cancelRequest(urlList)

(***************************************************************************)
(* Spec: the registry.  Up to MaxReq calls of every kind in Calls; every   *)
(* response is a business success, so the token and the location stay as   *)
(* they are.                                                               *)
(***************************************************************************)
OkBodies == {b \in Bodies : b.code = 200}

Init == InitOn(Tokens, {"zh"}, {TRUE})

Next == ClientNext(Calls, OkBodies, CancelArgs, MaxReq)

Spec == Init /\ [][Next]_vars

(***************************************************************************)
(* SpecAuth: responses of every kind and token changes, for up to          *)
(* MaxAuthReq calls of one endpoint.                                       *)
(***************************************************************************)
AuthCalls == {c \in Calls : c.params = <<>> /\ c.data = NoData}

AuthCancelArgs == {<<Fingerprint(c)>> : c \in AuthCalls}

InitAuth == InitOn(Tokens \cup {""}, {"en", "zh"}, BOOLEAN)

NextAuth ==
    \/ ClientNext(AuthCalls, Bodies, AuthCancelArgs, MaxAuthReq)
    \/ \E t \in Tokens : StoreToken(t)
    \/ LoginTimer

SpecAuth == InitAuth /\ [][NextAuth]_vars

(***************************************************************************)
(* SpecToken: the store goes from one token to another while up to         *)
(* MaxAuthReq calls of one endpoint are under way; a 401 empties it.       *)
(***************************************************************************)
TokenValues == {"tok-123", "tok-456"}

TokenBodies == {b \in Bodies : b.code \in {200, 401}}

InitToken == InitOn(TokenValues, {"zh"}, {TRUE})

NextToken ==
    \/ ClientNext(AuthCalls, TokenBodies, AuthCancelArgs, MaxAuthReq)
    \/ \E t \in TokenValues : StoreToken(t)

SpecToken == InitToken /\ [][NextToken]_vars

(***************************************************************************)
(* SpecTypes, SpecBody, SpecFingerprint: the registry for up to MaxKeyReq  *)
(* calls drawn from TypeCalls, BodyCalls and FingerprintCalls.             *)
(***************************************************************************)
\* cancelRequest arguments for `calls`: each url, each registry key
KeyArgs(calls) == {<<c.url>> : c \in calls} \cup {<<Fingerprint(c)>> : c \in calls}

NextTypes == ClientNext(TypeCalls, OkBodies, KeyArgs(TypeCalls), MaxKeyReq)

SpecTypes == Init /\ [][NextTypes]_vars

NextBody == ClientNext(BodyCalls, OkBodies, KeyArgs(BodyCalls), MaxKeyReq)

SpecBody == Init /\ [][NextBody]_vars

NextFingerprint ==
    ClientNext(FingerprintCalls, OkBodies, KeyArgs(FingerprintCalls), MaxKeyReq)

SpecFingerprint == Init /\ [][NextFingerprint]_vars

(***************************************************************************)
(* stores/tabs.ts: the tabs store.  A tab is its key and its closable      *)
(* flag; `dropped` lists the dropScope calls of the last operation.        *)
(***************************************************************************)
AllKeys == <<"/a", "/b", "/c", "/d", "/e", "/f">>

\* the routes a tab can be opened for
TabKeys == {AllKeys[k] : k \in 1..MaxTabs}

\* the payloads of addTabs
Payloads == [key : TabKeys, closable : BOOLEAN]

\* tabs.findIndex((item) => item.key === key), counted from 1; 0 when there is none
FindIndex(ts, key) ==
    IF \E k \in 1..Len(ts) : ts[k].key = key
    THEN CHOOSE k \in 1..Len(ts) :
            ts[k].key = key /\ \A j \in 1..(k - 1) : ts[j].key # key
    ELSE 0

\* a find that looks at the first tab only
HasTab_FirstOnly(ts, key) == ts # <<>> /\ ts[1].key = key

\* tabs.find((item) => item.key === payload.key)
HasTab(ts, key) == FindIndex(ts, key) # 0

\* ts[k]?.key || "", k counted from 1
KeyAt(ts, k) == IF k \in 1..Len(ts) THEN ts[k].key ELSE ""

\* ts without the tab at position k
Without(ts, k) == SubSeq(ts, 1, k - 1) \o SubSeq(ts, k + 1, Len(ts))

\* the first tab made closable whatever the number of tabs
SetFirstClosable_Always(ts) ==
    IF ts # <<>> THEN [ts EXCEPT ![1].closable = TRUE] ELSE ts

\* if (tabs.length) tabs[0].closable = tabs.length > 1
SetFirstClosable(ts) ==
    IF ts # <<>> THEN [ts EXCEPT ![1].closable = Len(ts) > 1] ELSE ts

\* the keys of the tabs of ts other than `payload`, in order: the dropScope calls of
\* the loop `if (item.key !== payload) dropScope(item.key)`
DropOthers(ts, payload) ==
    LET others == SelectSeq(ts, LAMBDA item : item.key # payload) IN
    [k \in 1..Len(others) |-> others[k].key]

\* a target that is the tab before the closed one whenever there is one
Target_PrefersPrevious(ts, index) ==
    IF index - 1 \in 1..Len(ts) THEN KeyAt(ts, index - 1) ELSE KeyAt(ts, index)

\* the key closeTabs activates after the active tab, found at position `index`, has
\* been taken out, leaving ts
Target(ts, index) ==
    IF index <= Len(ts) THEN KeyAt(ts, index) ELSE KeyAt(ts, index - 1)

addTabs(payload) ==
    /\ tabs' = SetFirstClosable(IF HasTab(tabs, payload.key) THEN tabs
                                ELSE Append(tabs, payload))
    /\ dropped' = <<>>
    /\ UNCHANGED <<activeKey, isCloseTabsLock, clientVars, versionVars, filterVars>>

closeTabs(payload) ==
    LET index == FindIndex(tabs, payload)
        ts == IF index > 0 THEN Without(tabs, index) ELSE tabs
    IN /\ IF payload = activeKey
          THEN activeKey' = Target(ts, index) /\ isCloseTabsLock' = TRUE
          ELSE UNCHANGED <<activeKey, isCloseTabsLock>>
       /\ tabs' = SetFirstClosable(ts)
       /\ dropped' = <<payload>>
       /\ UNCHANGED <<clientVars, versionVars, filterVars>>

closeTabGoNext(key, nextPath) ==
    LET index == FindIndex(tabs, key)
        ts == IF index > 0 THEN Without(tabs, index) ELSE tabs
    IN /\ IF key = activeKey
          THEN activeKey' = nextPath /\ isCloseTabsLock' = TRUE
          ELSE UNCHANGED <<activeKey, isCloseTabsLock>>
       /\ tabs' = SetFirstClosable(ts)
       /\ dropped' = <<key>>
       /\ UNCHANGED <<clientVars, versionVars, filterVars>>

closeLeft(payload) ==
    LET index == FindIndex(tabs, payload)
        ts == IF index > 0 THEN SubSeq(tabs, index, Len(tabs)) ELSE tabs
    IN /\ activeKey' = KeyAt(ts, 1)
       /\ isCloseTabsLock' = (isCloseTabsLock \/ activeKey # payload)
       /\ tabs' = SetFirstClosable(ts)
       /\ dropped' = DropOthers(ts, payload)
       /\ UNCHANGED <<clientVars, versionVars, filterVars>>

closeRight(payload) ==
    LET index == FindIndex(tabs, payload)
        ts == IF index > 0 THEN SubSeq(tabs, 1, index) ELSE tabs
    IN /\ dropped' = DropOthers(tabs, payload)
       /\ activeKey' = KeyAt(ts, Len(ts))
       /\ isCloseTabsLock' = (isCloseTabsLock \/ activeKey # payload)
       /\ tabs' = SetFirstClosable(ts)
       /\ UNCHANGED <<clientVars, versionVars, filterVars>>

closeOther(payload) ==
    LET filteredTabs == SelectSeq(tabs, LAMBDA item : item.key = payload) IN
    /\ dropped' = DropOthers(tabs, payload)
    /\ isCloseTabsLock' = (isCloseTabsLock \/ activeKey # payload)
    /\ tabs' = SetFirstClosable(filteredTabs)
    /\ activeKey' = payload
    /\ UNCHANGED <<clientVars, versionVars, filterVars>>

closeAllTab ==
    /\ tabs' = <<>>
    /\ activeKey' = ""
    /\ dropped' = <<>>
    /\ UNCHANGED <<isCloseTabsLock, clientVars, versionVars, filterVars>>

setActiveKey(key) ==
    /\ activeKey' = key
    /\ dropped' = <<>>
    /\ UNCHANGED <<tabs, isCloseTabsLock, clientVars, versionVars, filterVars>>

toggleCloseTabsLock(lock) ==
    /\ isCloseTabsLock' = lock
    /\ dropped' = <<>>
    /\ UNCHANGED <<tabs, activeKey, clientVars, versionVars, filterVars>>

NextTabs ==
    \/ \E payload \in Payloads : addTabs(payload)
    \/ \E key \in TabKeys : closeTabs(key)
    \/ \E key, nextPath \in TabKeys : closeTabGoNext(key, nextPath)
    \/ \E key \in TabKeys : closeLeft(key)
    \/ \E key \in TabKeys : closeRight(key)
    \/ \E key \in TabKeys : closeOther(key)
    \/ closeAllTab
    \/ \E key \in TabKeys : setActiveKey(key)
    \/ \E lock \in BOOLEAN : toggleCloseTabsLock(lock)

SpecTabs == Init /\ [][NextTabs]_vars

(***************************************************************************)
(* layouts/utils/helper.ts: versionCheck, an async function with one       *)
(* await; runs started before an earlier one has resumed overlap.          *)
(***************************************************************************)
DigitOf == <<"1", "2", "3", "4", "5", "6", "7", "8", "9">>

\* the `version` of the version.json of release k; release 0 has none
VersionOf(k) == IF k = 0 THEN Str(<<>>) ELSE Num(<<DigitOf[k]>>)

\* the call made before the await: the mode test and localStorage.getItem(VERSION)
versionCheckStart(r) ==
    /\ runs[r].at = "idle"
    /\ runs' = [runs EXCEPT ![r] =
                   IF mode = "development" THEN [at |-> "done", versionLocal |-> <<>>]
                   ELSE [at |-> "fetching", versionLocal |-> versionLocal]]
    /\ UNCHANGED <<versionLocal, served, mode, infos, clientVars, tabsVars, filterVars>>

\* what a run that read `local` does with the fetched `version`: the value it
\* leaves under VERSION and the number of messageApi.info calls it makes
Compare(local, version, stored) ==
    IF version.s # <<>> /\ local = <<>>
    THEN [stored |-> Coerce(version), info |-> 0]
    ELSE IF version.s # <<>> /\ local # Coerce(version)
    THEN [stored |-> Coerce(version), info |-> 1]
    ELSE [stored |-> stored, info |-> 0]

\* axios.get("version.json") resolves and the run goes on after the await
versionCheckResume(r) ==
    /\ runs[r].at = "fetching"
    /\ LET e == Compare(runs[r].versionLocal, VersionOf(served), versionLocal) IN
         /\ versionLocal' = e.stored
         /\ infos' = [infos EXCEPT ![served] = infos[served] + e.info]
    /\ runs' = [runs EXCEPT ![r].at = "done"]
    /\ UNCHANGED <<served, mode, clientVars, tabsVars, filterVars>>

\* axios.get("version.json") rejects: the run ends there
versionCheckFail(r) ==
    /\ runs[r].at = "fetching"
    /\ runs' = [runs EXCEPT ![r].at = "done"]
    /\ UNCHANGED <<versionLocal, served, mode, infos, clientVars, tabsVars, filterVars>>

\* a new build is deployed
Deploy ==
    /\ served < MaxRelease
    /\ served' = served + 1
    /\ UNCHANGED <<versionLocal, mode, runs, infos, clientVars, tabsVars, filterVars>>

InitVersion ==
    /\ InitClient(Tokens, {"zh"}, {TRUE})
    /\ InitTabs
    /\ InitVersionOn({"development", "production"}, {<<>>, <<"1">>}, {0, 1})
    /\ InitFilterOn({<<>>})

NextVersion ==
    \/ \E r \in Runs : versionCheckStart(r)
    \/ \E r \in Runs : versionCheckResume(r)
    \/ \E r \in Runs : versionCheckFail(r)
    \/ Deploy

SpecVersion == InitVersion /\ [][NextVersion]_vars

(***************************************************************************)
(* utils/helper.ts: filterEmptyValue.  An object is the sequence of its    *)
(* properties <<key, value>> in enumeration order.                         *)
(***************************************************************************)
Null == [t |-> "null"]

ArrayOf(length) == [t |-> "array", length |-> length]

ObjectOf(keys) == [t |-> "object", keys |-> keys]

\* property names, some with spaces around
FilterKeys == {<<"a">>, <<" ", "a">>, <<"b", " ">>}

\* undefined, null, strings, arrays and objects, empty and not, and a number
FilterValues ==
    {Undefined, Null, Str(<<>>), Str(<<" ">>), Str(<<" ", "x">>), ArrayOf(0), ArrayOf(1),
     ObjectOf(0), ObjectOf(1), Num(<<"0">>)}

\* the objects of up to MaxProps properties
FilterObjects ==
    {o \in UNION {[1..k -> FilterKeys \X FilterValues] : k \in 0..MaxProps} :
        \A i, j \in 1..Len(o) : o[i][1] = o[j][1] => i = j}

\* String.prototype.trim on a text of spaces and letters
RECURSIVE TrimStart(_)
TrimStart(s) == IF s # <<>> /\ Head(s) = " " THEN TrimStart(Tail(s)) ELSE s

Trim(s) == Reverse(TrimStart(Reverse(TrimStart(s))))

\* obj[key]
Get(o, key) ==
    IF \E k \in 1..Len(o) : o[k][1] = key
    THEN o[CHOOSE k \in 1..Len(o) : o[k][1] = key][2]
    ELSE Undefined

\* res[key] = value
Put(o, key, value) ==
    IF \E k \in 1..Len(o) : o[k][1] = key
    THEN [k \in 1..Len(o) |-> IF o[k][1] = key THEN <<key, value>> ELSE o[k]]
    ELSE Append(o, <<key, value>>)

\* the five tests of the loop body that end in `continue`
Skipped(v) ==
    \/ v = Undefined
    \/ v = Null
    \/ v.t = "array" /\ v.length = 0
    \/ v.t = "string" /\ Len(v.s) = 0
    \/ v.t = "object" /\ v.keys = 0

\* the loop of filterEmptyValue over the properties of obj from position k on
RECURSIVE FilterLoop(_, _, _)
FilterLoop(o, k, acc) ==
    IF k > Len(o) THEN acc
    ELSE LET key == Trim(o[k][1])
             v == Get(o, key)
         IN FilterLoop(o, k + 1,
                       IF Skipped(v) THEN acc
                       ELSE IF v.t = "string" THEN Put(acc, key, Str(Trim(v.s)))
                       ELSE Put(acc, key, v))

filterEmptyValue(o) == FilterLoop(o, 1, <<>>)

\* a caller calls filterEmptyValue(filterArg)
FilterCall ==
    /\ ~filterRes.returned
    /\ filterRes' = [returned |-> TRUE, res |-> filterEmptyValue(filterArg)]
    /\ UNCHANGED <<filterArg, clientVars, tabsVars, versionVars>>

InitFilter ==
    /\ InitClient(Tokens, {"zh"}, {TRUE})
    /\ InitTabs
    /\ InitVersionOn({"production"}, {<<>>}, {1})
    /\ InitFilterOn(FilterObjects)

NextFilter == FilterCall

SpecFilter == InitFilter /\ [][NextFilter]_vars

(***************************************************************************)
(* Claims                                                                  *)
(***************************************************************************)
Issued == 1..n

\* call i is at the transport: sent, no response or failure yet
InFlight(i) == pc[i] = "sent"

Settled(i) == pc[i] = "done"

\* C1: of two calls with identical method, url, params and body, the later issued
\* while the earlier had not completed, the earlier is aborted and the later proceeds
\* to the transport: whenever the later one is at the transport, the earlier one,
\* if its promise is still pending, has been aborted.
C1_EarlierIdenticalCallAborted ==
    \A i, j \in Issued :
        (i < j /\ call[i] = call[j] /\ InFlight(j) /\ outcome[i] = "pending")
            => aborted[i]

\* C2: when a request arrives whose key already has a registry entry, then right
\* after the built-in request interceptor the registry maps that key to the
\* controller of the newest request.
C2_NewestRegisteredAfterDuplicate ==
    [][\A i \in Ids :
          (BuiltinRequestInterceptor(i)
             /\ MapHas(abortControllerMap, Fingerprint(call[i])))
          => MapGet(abortControllerMap', Fingerprint(call[i])) = i]_vars

\* C3: the built-in response interceptor removes the registry entry stored for the
\* request whose response completed: no settled call still has its controller in
\* the registry, so the registry is empty once every call has settled.
C3_SettledCallReleased ==
    \A i \in Issued :
        Settled(i) => \A e \in 1..Len(abortControllerMap) : abortControllerMap[e].ctl # i

\* C4: a transport failure or a cancellation makes the promise returned by
\* get/post/put/delete reject; it never fulfils.
C4_FailureRejects ==
    \A i \in Issued :
        (Settled(i) /\ val[i].t = "error" /\ val[i].kind \in {"cancel", "network"})
            => outcome[i] = "rejected"

\* C5: cancelAllRequest() aborts every outstanding call: every call that is at the
\* transport when it is called settles as a cancellation.
C5_CancelAllAbortsEveryCall ==
    [][cancelAllRequest =>
          \A i \in Ids :
              InFlight(i) => (aborted'[i] /\ st'[i] = "err" /\ val'[i] = CanceledError)]_vars

\* C6: cancelRequest called with the bare url (or an array holding the bare url)
\* that was passed to get/post/put/delete for a call still at the transport aborts
\* that call and removes its registry entry.
C6_CancelByBareUrl ==
    [][\A urlList \in CancelArgs :
          cancelRequest(urlList) =>
              \A i \in Ids :
                  (InFlight(i) /\ call[i].url \in Range(urlList))
                      => (aborted'[i]
                          /\ ~MapHas(abortControllerMap', Fingerprint(call[i])))]_vars

\* C7: among the calls at the transport there is at most one non-aborted
\* controller per registry key.
C7_OneLiveHandlePerFingerprint ==
    \A i, j \in Issued :
        (i # j /\ InFlight(i) /\ InFlight(j)
           /\ Fingerprint(call[i]) = Fingerprint(call[j]))
            => (aborted[i] \/ aborted[j])

\* C8: a response the transport delivered whose business code is not 200 (401
\* included) fulfils the caller's promise with the response body, which carries
\* that code; it never rejects.
C8_BusinessErrorFulfils ==
    \A i \in Issued :
        (Settled(i) /\ received[i].t = "response" /\ received[i].data.code # 200)
            => (outcome[i] = "fulfilled" /\ result[i] = received[i].data)

C8_Witness ==
    \E i \in Issued :
        /\ Settled(i)
        /\ received[i].t = "response"
        /\ received[i].data.code = 401
        /\ outcome[i] = "fulfilled"
        /\ result[i].code = 401

\* C9: when a response with business code 401 is processed the stored token is
\* removed and the jump to /login is triggered (done at once under hash routing,
\* scheduled otherwise); the token stays empty until a new one is stored, and
\* while it is empty no request handed to the transport carries an
\* Authorization header.
C9_UnauthorizedLogsOut ==
    [][/\ \A i \in Ids :
             (ResponseInterceptors(i) /\ val[i].data.code = 401)
                 => /\ token' = ""
                    /\ redirected'[i]
                    /\ \/ location'.route = "/login"
                       \/ timers' = timers + 1
       /\ (token = "" /\ token' # "") => \E t \in Tokens : StoreToken(t)
       /\ \A i \in Ids :
             (Dispatch(i) /\ pc'[i] = "sent" /\ token = "") => authorization[i] = ""
      ]_vars

\* a call that carried the token got a 401, and a call issued after it is at the
\* transport without an Authorization header
C9_Witness ==
    \E i, k \in Issued :
        /\ i < k
        /\ authorization[i] # ""
        /\ redirected[i]
        /\ token = ""
        /\ pc[k] = "sent"
        /\ authorization[k] = ""

\* C10 as stated: a response whose business code is neither 200 nor 401 leaves the
\* token unchanged, triggers no redirect, and causes exactly one notifier call whose
\* content is the server-provided message.
C10_NotifiesServerMessage ==
    [][\A i \in Ids :
          (ResponseInterceptors(i) /\ val[i].data.code \notin {200, 401})
              => /\ token' = token
                 /\ location' = location /\ timers' = timers /\ ~redirected'[i]
                 /\ val[i].data.message.t = "string"
                 /\ notified'[i] = <<val[i].data.message.s>>]_vars

\* C10 amended: a response whose business code is neither 200 nor 401 leaves the
\* token unchanged, triggers no redirect, and causes exactly one notifier call; its
\* content is the server-provided message when that is a non-empty string, and the
\* generic server-error text when the message is missing or empty.
C10_NotifiesMessageOrFallback ==
    [][\A i \in Ids :
          (ResponseInterceptors(i) /\ val[i].data.code \notin {200, 401})
              => /\ token' = token
                 /\ location' = location /\ timers' = timers /\ ~redirected'[i]
                 /\ LET m == val[i].data.message IN
                    notified'[i] =
                        <<IF m.t = "string" /\ m.s # "" THEN m.s ELSE ServerErrorFallback>>
      ]_vars

\* a 404 without a message has been handled with the token still stored, and a 404
\* with a message has been handled too
C10_Witness ==
    \E i, k \in Issued :
        /\ received[i].t = "response" /\ received[i].data.code = 404
        /\ received[i].data.message = Undefined
        /\ notified[i] = <<ServerErrorFallback>>
        /\ received[k].t = "response" /\ received[k].data.code = 404
        /\ notified[k] = <<"not found">>
        /\ ~redirected[i] /\ ~redirected[k]
        /\ token # ""

\* C11 as stated: whenever the store holds a non-empty token t when a call is made,
\* the request handed to the transport carries Authorization = t, whatever token
\* changes happen afterwards.
C11_HeaderIsTokenAtIssue ==
    \A i \in Issued :
        (issuedWith[i] # "" /\ InFlight(i)) => authorization[i] = issuedWith[i]

\* C11 amended: the Authorization header of a request is written by the caller's
\* request interceptor and by nothing else, and it is the token that is in the store
\* when that interceptor runs (no header when the store is empty then).
C11_HeaderIsTokenAtInterceptor ==
    [][\A i \in Ids :
          IF RequestInterceptors(i)
          THEN authorization'[i] = token
          ELSE authorization'[i] = authorization[i]]_vars

\* a call made while the store held one token is at the transport with the token
\* stored after the call returned
C11_Witness ==
    \E i \in Issued :
        /\ InFlight(i)
        /\ issuedWith[i] = "tok-123"
        /\ authorization[i] = "tok-456"

\* the moves of a call from one stage to the next when the handlers run in `order`;
\* "sent" is the wait for the transport inside the dispatch stage
StageMoves(order) ==
    {<<"idle", order[1]>>, <<order[Len(order)], "done">>,
     <<"dispatch", "sent">>, <<"sent", "response">>}
    \cup {<<order[k], order[k + 1]>> : k \in 1..(Len(order) - 1)}

\* C12 as stated: the stages of a call run in the order built-in de-dup, caller's
\* request-transform, transport, caller's response-transform, built-in terminal
\* stage; in particular de-dup runs before the caller's request-transform.
C12_DedupBeforeCallerTransform ==
    [][\A i \in Ids :
          pc'[i] # pc[i] =>
              <<pc[i], pc'[i]>> \in
                  StageMoves(<<"dedup", "requestInterceptors", "dispatch", "response",
                               "terminal">>)]_vars

\* C12 amended: the stages of a call run in the order caller's request-transform,
\* built-in de-dup, transport, caller's response-transform, built-in terminal stage;
\* in particular the caller's request-transform runs before de-dup.
C12_CallerTransformBeforeDedup ==
    [][\A i \in Ids :
          pc'[i] # pc[i] =>
              <<pc[i], pc'[i]>> \in
                  StageMoves(<<"requestInterceptors", "dedup", "dispatch", "response",
                               "terminal">>)]_vars

\* a call has gone through every stage: it got its header, was registered, got a
\* response and is settled
C12_Witness ==
    \E i \in Issued :
        /\ Settled(i)
        /\ authorization[i] # ""
        /\ received[i].t = "response"
        /\ outcome[i] = "fulfilled"

\* C13: a string body that starts with "{" and ends with "}" but is not valid JSON
\* does not crash the pipeline: the call leaves the de-dup stage unfailed, on its way
\* to the transport, and its promise is never rejected.
C13_MalformedBodyDoesNotCrash ==
    \A i \in Issued :
        ParseThrows(call[i]) =>
            /\ pc[i] = "dispatch" => st[i] = "ok"
            /\ outcome[i] # "rejected"

\* the keys and the texts of the values of params or of the members of a body
Texts(fields) == [k \in 1..Len(fields) |-> <<fields[k][1], fields[k][2].s>>]

\* the top-level members of the JSON string body of c
ParsedBody(c) == IF LooksLikeJson(c.data) THEN JsonParse(c.data.text).fields ELSE <<>>

\* c and d are the same request but for the type, number or string, of some value
TypeTwins(c, d) ==
    /\ c.method = d.method /\ c.url = d.url
    /\ Texts(c.params) = Texts(d.params)
    /\ Texts(ParsedBody(c)) = Texts(ParsedBody(d))
    /\ c.params # d.params \/ ParsedBody(c) # ParsedBody(d)

\* C14 as stated: the fingerprint distinguishes value types: two requests that differ
\* only in a value being the number 1 or the string "1" have different fingerprints.
C14_TypesDistinguished ==
    \A i, j \in Issued :
        TypeTwins(call[i], call[j]) => Fingerprint(call[i]) # Fingerprint(call[j])

\* C14 amended: the fingerprint does not distinguish value types: while one of two
\* requests that differ only in a value being the number 1 or the string "1" is in
\* the registry, the registry lookup for the other finds its handle.
C14_TypesShareFingerprint ==
    \A i, j \in Issued :
        (TypeTwins(call[i], call[j]) /\ MapGet(abortControllerMap, Fingerprint(call[i])) = i)
            => MapGet(abortControllerMap, Fingerprint(call[j])) = i

\* a call with the string "1" has aborted, as its duplicate, the call with the
\* number 1 and is at the transport
C14_Witness ==
    \E i, j \in Issued :
        /\ i < j
        /\ TypeTwins(call[i], call[j])
        /\ aborted[i]
        /\ val[i] = CanceledError
        /\ InFlight(j)

\* C15: of two posts to the same url whose bodies, passed as objects, differ in a
\* top-level value, the second does not abort the first: the de-dup stage of the one
\* leaves the handle of the other as it was.
C15_DifferentBodiesDoNotAbort ==
    [][\A i, j \in Ids :
          ( /\ BuiltinRequestInterceptor(j)
            /\ i \in Issued /\ i # j
            /\ UrlKey(call[i]) = UrlKey(call[j])
            /\ call[i].data.kind = "object" /\ call[j].data.kind = "object"
            /\ call[i].data # call[j].data )
              => aborted'[i] = aborted[i]]_vars

\* C16: a cancellation is not treated as a transport failure: the response error
\* handler, given a cancellation, makes no notifier call, leaves the token alone and
\* returns the cancellation object with a data field that is an object.
C16_CancellationIsSilent ==
    [][\A i \in Ids :
          (ResponseInterceptorsCatch(i) /\ val[i].kind = "cancel")
              => /\ notified' = notified
                 /\ token' = token
                 /\ val'[i].kind = "cancel"
                 /\ val'[i].data.t = "object"]_vars

\* the response error handler has returned the cancellation of a call, with an
\* object as data, nothing was shown and the token is still stored
C16_Witness ==
    \E i \in Issued :
        /\ pc[i] = "terminal"
        /\ val[i].t = "error" /\ val[i].kind = "cancel"
        /\ val[i].data = EmptyObject
        /\ notified[i] = <<>>
        /\ token # ""

\* C17: a transport failure that is not a cancellation triggers exactly one notifier
\* call, with the generic transport-failure message, and neither clears the token
\* nor redirects.
C17_TransportFailureNotifiesOnce ==
    [][\A i \in Ids :
          (ResponseInterceptorsCatch(i) /\ val[i].kind = "network")
              => /\ notified[i] = <<>>
                 /\ notified' = [notified EXCEPT ![i] = <<ServerErrorMsg>>]
                 /\ token' = token
                 /\ location' = location /\ timers' = timers
                 /\ redirected' = redirected]_vars

\* a call whose transport failed is settled: one notification with the generic
\* message, the token still stored, no redirect
C17_Witness ==
    \E i \in Issued :
        /\ Settled(i)
        /\ val[i] = NetworkError
        /\ notified[i] = <<ServerErrorMsg>>
        /\ token # ""
        /\ ~redirected[i]
        /\ location.route = "/"

\* C19: a response with business code 200 causes no notifier call, no token change
\* and no redirect, and the caller's promise fulfils with the response body as the
\* transport delivered it.
C19_SuccessReturnsBody ==
    [][\A i \in Ids :
          /\ (ResponseInterceptors(i) /\ val[i].data.code = 200)
                => /\ notified' = notified
                   /\ token' = token
                   /\ location' = location /\ timers' = timers
                   /\ redirected' = redirected
          /\ (BuiltinResponseInterceptor(i) /\ val[i].t = "response"
                 /\ val[i].data.code = 200)
                => /\ outcome'[i] = "fulfilled"
                   /\ result'[i] = received[i].data]_vars

\* a call that got a code-200 body is settled with that body, nothing shown, the
\* token still stored
C19_Witness ==
    \E i \in Issued :
        /\ Settled(i)
        /\ received[i].t = "response" /\ received[i].data.code = 200
        /\ outcome[i] = "fulfilled"
        /\ result[i] = received[i].data
        /\ notified[i] = <<>>
        /\ ~redirected[i]
        /\ token # ""

\* C18: right after cancelAllRequest() the registry is empty and every handle that
\* was in the registry has been aborted.
C18_CancelAllEmptiesRegistry ==
    [][cancelAllRequest =>
          /\ abortControllerMap' = <<>>
          /\ \A e \in 1..Len(abortControllerMap) : aborted'[abortControllerMap[e].ctl]]_vars

\* the registry is empty and two calls with different keys, both at the transport a
\* moment ago, have been aborted together
C18_Witness ==
    \E i, j \in Issued :
        /\ Fingerprint(call[i]) # Fingerprint(call[j])
        /\ abortControllerMap = <<>>
        /\ aborted[i] /\ aborted[j]
        /\ val[i] = CanceledError /\ val[j] = CanceledError
        /\ queue = <<i, j>>

RECURSIVE Join(_)
Join(ss) == IF ss = <<>> THEN <<>> ELSE Head(ss) \o Join(Tail(ss))

\* mark key = value for each of the fields, in their order
Pairs(mark, fields) ==
    Join([k \in 1..Len(fields) |-> <<mark>> \o fields[k][1] \o <<"=">> \o fields[k][2].s])

\* the fingerprint as the claim describes it
ExpectedKey(c) ==
    c.method
    \o (IF c.url = <<>> THEN <<>> ELSE <<"^">> \o c.url)
    \o Pairs("&", c.params)
    \o Pairs("#", ParsedBody(c))

LowerCase == {"a", "b", "c", "d", "e", "f", "g", "h", "i", "j", "k", "l", "m",
              "n", "o", "p", "q", "r", "s", "t", "u", "v", "w", "x", "y", "z"}

\* C20: the key under which a call is registered is a function of its method, url,
\* params and JSON string body: the method in lower case, then "^" and the url when
\* there is one, then "&key=value" for each param in order, then "#key=value" for
\* each top-level member of the body; calls with equal inputs have equal keys, so
\* the registry never holds two of them.
C20_KeyFormat ==
    \A e, f \in 1..Len(abortControllerMap) :
        LET c == call[abortControllerMap[e].ctl] IN
        /\ abortControllerMap[e].key = ExpectedKey(c)
        /\ \A k \in 1..Len(c.method) : c.method[k] \in LowerCase
        /\ e # f => call[abortControllerMap[f].ctl] # c

\* the registry holds the get with two params under get^/a&p=1&q=x and the post
\* with the body {"n":1,"m":"x"} under post^/a#n=1#m=x
C20_Witness ==
    /\ MapHas(abortControllerMap,
              <<"g", "e", "t", "^", "/", "a", "&", "p", "=", "1", "&", "q", "=", "x">>)
    /\ MapHas(abortControllerMap,
              <<"p", "o", "s", "t", "^", "/", "a", "#", "n", "=", "1", "#", "m", "=", "x">>)

\* C21: cancelRequest(k) with the full key k of a request at the transport aborts
\* that request: every request at the transport has a registry entry under its key
\* holding its own handle, and no registry entry belongs to a settled request.
C21_InFlightRegisteredUnderOwnKey ==
    /\ \A i \in Issued :
          InFlight(i) => MapGet(abortControllerMap, Fingerprint(call[i])) = i
    /\ \A e \in 1..Len(abortControllerMap) : ~Settled(abortControllerMap[e].ctl)

\* C22: closeLeft(k), with k an open tab, calls dropScope for exactly the tabs it
\* closes, the tabs left of k, and for no tab that remains open.
C22_CloseLeftDropsClosedTabs ==
    [][\A k \in TabKeys :
          (closeLeft(k) /\ HasTab(tabs, k))
              => Range(dropped') = {tabs[j].key : j \in 1..(FindIndex(tabs, k) - 1)}]_vars

\* C23: closeRight(k), with k an open tab, calls dropScope for exactly the tabs it
\* closes, the tabs right of k, and for no tab that remains open.
C23_CloseRightDropsClosedTabs ==
    [][\A k \in TabKeys :
          (closeRight(k) /\ HasTab(tabs, k))
              => Range(dropped') =
                    {tabs[j].key : j \in (FindIndex(tabs, k) + 1)..Len(tabs)}]_vars

\* activeKey is the empty string or the key of an open tab
ActiveOpen == activeKey = "" \/ HasTab(tabs, activeKey)

\* C24: addTabs, closeTabs, closeLeft, closeRight, closeOther and closeAllTab, called
\* with any key, keep activeKey the empty string or the key of a tab in tabs, when
\* it was so before the call.
C24_ActiveKeyStaysOpen ==
    [][( /\ ActiveOpen
         /\ \/ \E payload \in Payloads : addTabs(payload)
            \/ \E key \in TabKeys :
                  closeTabs(key) \/ closeLeft(key) \/ closeRight(key) \/ closeOther(key)
            \/ closeAllTab )
          => ActiveOpen']_vars

\* C25: closeTabs(k), k being the active tab, at position i: the new activeKey is
\* the key of the tab that followed it when there is one, otherwise the key of the
\* tab before it, otherwise the empty string, and isCloseTabsLock becomes true; k
\* not being the active tab, activeKey and isCloseTabsLock are unchanged.  In both
\* cases k is removed from tabs and dropScope(k) is called once.
C25_CloseTabsActivatesNeighbour ==
    [][\A k \in TabKeys :
          (closeTabs(k) /\ HasTab(tabs, k))
              => LET i == FindIndex(tabs, k) IN
                 /\ IF k = activeKey
                    THEN /\ activeKey' = IF i < Len(tabs) THEN tabs[i + 1].key
                                         ELSE IF i > 1 THEN tabs[i - 1].key
                                         ELSE ""
                         /\ isCloseTabsLock'
                    ELSE activeKey' = activeKey /\ isCloseTabsLock' = isCloseTabsLock
                 /\ [j \in 1..Len(tabs') |-> tabs'[j].key]
                       = [j \in 1..(Len(tabs) - 1) |->
                             IF j < i THEN tabs[j].key ELSE tabs[j + 1].key]
                 /\ dropped' = <<k>>]_vars

\* one of three tabs, the active one, has just been closed: the second of the two
\* tabs left is active, the store is locked and dropScope was called for the closed tab
C25_Witness ==
    /\ Len(tabs) = 2
    /\ activeKey = tabs[2].key
    /\ isCloseTabsLock
    /\ Len(dropped) = 1 /\ ~HasTab(tabs, dropped[1])

\* C26: no two tabs in tabs have the same key; addTabs with a key that is already
\* open adds nothing and keeps the order of the tabs.
C26_KeysUnique ==
    [][/\ \A i, j \in 1..Len(tabs') : tabs'[i].key = tabs'[j].key => i = j
       /\ \A payload \in Payloads :
             (addTabs(payload) /\ \E j \in 1..Len(tabs) : tabs[j].key = payload.key)
                 => [j \in 1..Len(tabs') |-> tabs'[j].key]
                       = [j \in 1..Len(tabs) |-> tabs[j].key]]_vars

\* three tabs are open, added in the order /a, /b, /c
C26_Witness ==
    /\ Len(tabs) = 3
    /\ tabs[1].key = "/a" /\ tabs[2].key = "/b" /\ tabs[3].key = "/c"
    /\ dropped = <<>>
    /\ tabs[3].closable

\* C27: if tabs is not empty the closable flag of the first tab equals (number of
\* open tabs > 1): a sole tab is never closable, the first of several always is.
C27_FirstClosableIffSeveral ==
    tabs # <<>> => (tabs[1].closable <=> Len(tabs) > 1)

\* one tab is left after a close operation, and it is not closable
C27_Witness ==
    /\ Len(tabs) = 1
    /\ ~tabs[1].closable
    /\ dropped # <<>>

\* C28: a versionCheck run outside development mode that fetched a non-empty
\* version v: with no stored version it stores v and shows no message; with a
\* stored version other than v it stores v and shows the update message once; with
\* the stored version equal to v it does nothing.  So after the run the stored
\* version is v, and the message has been shown at most once for v.
C28_VersionCheckNotifiesOnce ==
    [][\A r \in Runs :
          (versionCheckResume(r) /\ mode # "development" /\ served # 0)
              => LET v == Coerce(VersionOf(served)) IN
                 /\ versionLocal = <<>> => (versionLocal' = v /\ infos' = infos)
                 /\ versionLocal \notin {<<>>, v}
                       => /\ versionLocal' = v
                          /\ infos' = [infos EXCEPT ![served] = infos[served] + 1]
                 /\ versionLocal = v => (versionLocal' = v /\ infos' = infos)
                 /\ versionLocal' = v
                 /\ infos'[served] <= 1]_vars

\* a value filterEmptyValue is to leave out
EmptyValue(v) ==
    v \in {Undefined, Null, Str(<<>>), ArrayOf(0), ObjectOf(0)}

\* C29: the result of filterEmptyValue contains no property whose value is
\* undefined, null, an empty string, an empty array or an empty object, and every
\* property of the input whose value is none of these is in the result under its
\* trimmed key, a string value trimmed.
C29_FilterKeepsNonEmpty ==
    filterRes.returned =>
        LET res == filterRes.res IN
        /\ \A k \in 1..Len(res) : ~EmptyValue(res[k][2])
        /\ \A k \in 1..Len(filterArg) :
              LET v == filterArg[k][2] IN
              ~EmptyValue(v) =>
                  \E j \in 1..Len(res) :
                      /\ res[j][1] = Trim(filterArg[k][1])
                      /\ res[j][2] = IF v.t = "string" THEN Str(Trim(v.s)) ELSE v

====
